---- MODULE Spec2Model ----
(***************************************************************************)
(* Model of src/src/agent.ts: the Chrome DevTools launch arguments, the   *)
(* options record handed to the agent runtime, and the streamAgent async  *)
(* generator that relays the runtime's messages as events.                *)
(*                                                                         *)
(* JavaScript values are encoded as follows.  An object is a record whose *)
(* DOMAIN holds exactly the properties that are present; a property that  *)
(* is absent (undefined) is simply not in the DOMAIN.  An optional scalar *)
(* that is not a property (the environment variable, the error thrown) is *)
(* <<>> when absent and <<v>> when present.  Objects and arrays are       *)
(* truthy; a string is truthy iff it is not "", a number iff it is not 0. *)
(***************************************************************************)
EXTENDS Integers, Sequences, FiniteSets, TLC

(* ------------------------------ bounds --------------------------------- *)

\* longest content array of a message of the arbitrary-message universe
MaxBlocks == 2
\* most messages the runtime delivers when they are arbitrary messages
MaxMsgs == 1
\* most messages the runtime delivers when they are scenario messages
MaxTrace == 4

(* ------------------- launch parameters (lines 9-41) -------------------- *)

CONTAINER_CHROME == "/usr/bin/chromium"

\* values of process.env.CHROME_PATH: unset, the container path, another path
Envs == {<<>>, <<CONTAINER_CHROME>>, <<"/usr/bin/google-chrome">>}

baseArgs ==
  << "-y",
     "chrome-devtools-mcp@latest",
     "--headless",
     "--isolated",
     "--no-category-emulation",
     "--no-category-performance",
     "--no-category-network" >>

containerArgs ==
  << "--executable-path=/usr/bin/chromium",
     "--chrome-arg=--no-sandbox",
     "--chrome-arg=--disable-setuid-sandbox",
     "--chrome-arg=--disable-dev-shm-usage",
     "--chrome-arg=--disable-gpu" >>

\* mutant: any configured browser path counts as the container
isContainerAnyPath(chromePath) == chromePath # <<>>

isContainer(chromePath) == chromePath = <<CONTAINER_CHROME>>

\* mutant: the last container flag is forgotten
buildChromeDevToolsArgsNoGpu(chromePath) ==
  IF isContainer(chromePath)
    THEN baseArgs \o SubSeq(containerArgs, 1, Len(containerArgs) - 1)
    ELSE baseArgs

buildChromeDevToolsArgs(chromePath) ==
  IF isContainer(chromePath)
    THEN baseArgs \o containerArgs
    ELSE baseArgs

CHROME_DEVTOOLS_MCP_CONFIG(chromePath) ==
  [type |-> "stdio", command |-> "npx", args |-> buildChromeDevToolsArgs(chromePath)]

(* ---------------------- options (lines 43-165) ------------------------- *)

ALLOWED_TOOLS ==
  << "mcp__chrome-devtools__click",
     "mcp__chrome-devtools__fill",
     "mcp__chrome-devtools__fill_form",
     "mcp__chrome-devtools__hover",
     "mcp__chrome-devtools__press_key",
     "mcp__chrome-devtools__navigate_page",
     "mcp__chrome-devtools__new_page",
     "mcp__chrome-devtools__list_pages",
     "mcp__chrome-devtools__select_page",
     "mcp__chrome-devtools__close_page",
     "mcp__chrome-devtools__wait_for",
     "mcp__chrome-devtools__take_screenshot",
     "mcp__chrome-devtools__take_snapshot" >>

\* the prompt is opaque text; only its identity matters
SYSTEM_PROMPT == "You are a Recipe Finder agent with browser automation capabilities"

\* mutant: the embedded mode gets a lower turn ceiling and no tool list
getOptionsModeDependent(standalone, processEnv, mcpConfig) ==
  IF standalone
    THEN [env |-> processEnv, systemPrompt |-> SYSTEM_PROMPT, model |-> "haiku",
          allowedTools |-> ALLOWED_TOOLS, maxTurns |-> 50,
          mcpServers |-> [chrome_devtools |-> mcpConfig]]
    ELSE [env |-> processEnv, systemPrompt |-> SYSTEM_PROMPT, model |-> "haiku",
          allowedTools |-> <<>>, maxTurns |-> 10]

\* the property key "chrome-devtools" is written chrome_devtools
getOptions(standalone, processEnv, mcpConfig) ==
  IF standalone
    THEN [env |-> processEnv, systemPrompt |-> SYSTEM_PROMPT, model |-> "haiku",
          allowedTools |-> ALLOWED_TOOLS, maxTurns |-> 50,
          mcpServers |-> [chrome_devtools |-> mcpConfig]]
    ELSE [env |-> processEnv, systemPrompt |-> SYSTEM_PROMPT, model |-> "haiku",
          allowedTools |-> ALLOWED_TOOLS, maxTurns |-> 50]

(* ------------------ runtime messages (line 168) ------------------------ *)

Text(t) == [type |-> "text", text |-> t]
ToolUse(n) == [type |-> "tool_use", id |-> "toolu_01", name |-> n, input |-> "{uid:1}"]

Texts == {"", "a"}
ToolNames == {"click"}
Blocks == {Text(t) : t \in Texts} \cup {ToolUse(n) : n \in ToolNames}
Contents == UNION {[1..n -> Blocks] : n \in 0..MaxBlocks}

\* an object with no property
EmptyObject == <<>>

Usages ==
  { [input_tokens |-> 10, output_tokens |-> 5],
    [input_tokens |-> 0, output_tokens |-> 5],
    [input_tokens |-> 10],
    [output_tokens |-> 5],
    EmptyObject }

Results == {"", "Found 3 recipes"}

\* a message that carries content, usage and a result at once
Loaded(t, u, r) ==
  [type |-> t,
   message |-> [content |-> <<ToolUse("click"), Text("a"), ToolUse("fill"), Text("b")>>,
                usage |-> u],
   result |-> r]

\* the arbitrary-message universe
Messages ==
  {[type |-> "assistant", message |-> [content |-> c]] : c \in Contents}
    \cup {[type |-> "user", message |-> [content |-> <<b>>]] : b \in Blocks}
    \cup {[type |-> t, message |-> [usage |-> u]] : t \in {"assistant", "user"}, u \in Usages}
    \cup {[type |-> "result", result |-> r] : r \in Results}
    \cup {Loaded(t, [output_tokens |-> 5], r) : t \in {"assistant", "result"}, r \in Results}
    \cup {[type |-> "system"], [type |-> "assistant", message |-> EmptyObject]}

\* the scenario universe: the four messages of the documented example and a
\* message with everything interleaved
MsgTwoTexts == [type |-> "assistant", message |-> [content |-> <<Text("a"), Text("b")>>]]
MsgOneTool == [type |-> "assistant", message |-> [content |-> <<ToolUse("click")>>]]
MsgUsage == [type |-> "assistant", message |-> [usage |-> [input_tokens |-> 10, output_tokens |-> 5]]]
MsgResult == [type |-> "result", result |-> "Found 3 recipes"]
MsgLoaded == Loaded("assistant", [input_tokens |-> 10], "Found 3 recipes")

Scenario == {MsgTwoTexts, MsgOneTool, MsgUsage, MsgResult, MsgLoaded}

\* errors the runtime's stream may raise
Errors == {"ProcessExited", "AbortError"}

\* the message sequences the runtime may deliver
Deliverable(s) ==
  \/ Len(s) <= MaxTrace /\ \A i \in 1..Len(s) : s[i] \in Scenario
  \/ Len(s) <= MaxMsgs /\ \A i \in 1..Len(s) : s[i] \in Messages

(* ------------------ event relay (lines 167-200) ------------------------ *)

\* line 170 and, identically, line 179
carriesContent(m) ==
  /\ m.type = "assistant"
  /\ "message" \in DOMAIN m
  /\ "content" \in DOMAIN m.message

contentOf(m) == IF carriesContent(m) THEN m.message.content ELSE <<>>

\* mutant: the text is not tested for truthiness
isTextBlockAnyText(block) == block.type = "text"

isTextBlock(block) ==
  /\ block.type = "text"
  /\ "text" \in DOMAIN block
  /\ block.text # ""

isToolBlock(block) == block.type = "tool_use"

textEvent(block) == [type |-> "text", text |-> block.text]

\* mutant: the whole block is relayed under the event's type
toolEventWithInput(block) == [type |-> "tool", name |-> block.name, input |-> block.input]

toolEvent(block) == [type |-> "tool", name |-> block.name]

carriesUsage(m) == "message" \in DOMAIN m /\ "usage" \in DOMAIN m.message

\* u.counter || 0
orZero(u, counter) == IF counter \in DOMAIN u /\ u[counter] # 0 THEN u[counter] ELSE 0

\* mutant: a missing counter zeroes the whole record
usageEventAllOrNothing(u) ==
  IF "input_tokens" \in DOMAIN u /\ "output_tokens" \in DOMAIN u
    THEN [type |-> "usage", input |-> u.input_tokens, output |-> u.output_tokens]
    ELSE [type |-> "usage", input |-> 0, output |-> 0]

usageEvent(u) ==
  [type |-> "usage", input |-> orZero(u, "input_tokens"), output |-> orZero(u, "output_tokens")]

\* mutant: only the presence of the field is tested
carriesResultAnyValue(m) == "result" \in DOMAIN m

carriesResult(m) == "result" \in DOMAIN m /\ m.result # ""

resultEvent(m) == [type |-> "result", text |-> m.result]

doneEvent == [type |-> "done"]

\* mutant: the result is relayed before the usage
nextPhaseResultFirst(phase) ==
  CASE phase = "text" -> "tool"
    [] phase = "tool" -> "result"
    [] phase = "result" -> "usage"
    [] phase = "usage" -> "await"

\* the order of the four blocks of the loop body
nextPhase(phase) ==
  CASE phase = "text" -> "tool"
    [] phase = "tool" -> "usage"
    [] phase = "usage" -> "result"
    [] phase = "result" -> "await"

VARIABLES
  env,       \* process.env.CHROME_PATH
  mcpConfig, \* CHROME_DEVTOOLS_MCP_CONFIG, <<>> until the module is evaluated
  options,   \* <<>> or <<the record the last getOptions call returned>>
  mode,      \* the argument of that call
  pc,        \* where the program is
  received,  \* the messages the runtime has delivered so far
  bi,        \* index of the content block the current loop is at
  out,       \* the events the consumer has received
  origin,    \* origin[k]: the number of the message out[k] was produced from
  failure,   \* <<>> or <<the error the runtime's stream raised>>
  thrown     \* <<>> or <<the error that reached the consumer>>

vars == <<env, mcpConfig, options, mode, pc, received, bi, out, origin, failure, thrown>>

message == received[Len(received)]

Init ==
  /\ env \in Envs
  /\ mcpConfig = <<>>
  /\ options = <<>>
  /\ mode = FALSE
  /\ pc = "load"
  /\ received = <<>>
  /\ bi = 1
  /\ out = <<>>
  /\ origin = <<>>
  /\ failure = <<>>
  /\ thrown = <<>>

\* the module is evaluated: line 37
Load ==
  /\ pc = "load"
  /\ mcpConfig' = <<CHROME_DEVTOOLS_MCP_CONFIG(env)>>
  /\ pc' = "ready"
  /\ UNCHANGED <<env, options, mode, received, bi, out, origin, failure, thrown>>

\* an embedding caller calls the exported getOptions
CallGetOptions(standalone) ==
  /\ pc = "ready"
  /\ options' = <<getOptions(standalone, env, mcpConfig[1])>>
  /\ mode' = standalone
  /\ UNCHANGED <<env, mcpConfig, pc, received, bi, out, origin, failure, thrown>>

\* streamAgent is called and drained: query({prompt, options: getOptions(true)})
StreamAgent ==
  /\ pc = "ready"
  /\ options' = <<getOptions(TRUE, env, mcpConfig[1])>>
  /\ mode' = TRUE
  /\ pc' = "await"
  /\ UNCHANGED <<env, mcpConfig, received, bi, out, origin, failure, thrown>>

yield(event) ==
  /\ out' = Append(out, event)
  /\ origin' = Append(origin, Len(received))

\* for await: the runtime delivers its next message
Deliver(m) ==
  /\ pc = "await"
  /\ Deliverable(Append(received, m))
  /\ received' = Append(received, m)
  /\ pc' = "text"
  /\ bi' = 1
  /\ UNCHANGED <<env, mcpConfig, options, mode, out, origin, failure, thrown>>

\* mutant: the terminal event is yielded from a finally block
RaiseThenDone(e) ==
  /\ pc = "await"
  /\ failure' = <<e>>
  /\ thrown' = <<e>>
  /\ out' = Append(out, [type |-> "done"])
  /\ origin' = Append(origin, Len(received))
  /\ pc' = "failed"
  /\ UNCHANGED <<env, mcpConfig, options, mode, received, bi>>

\* for await: the runtime's stream raises; nothing catches it
Raise(e) ==
  /\ pc = "await"
  /\ failure' = <<e>>
  /\ thrown' = <<e>>
  /\ pc' = "failed"
  /\ UNCHANGED <<env, mcpConfig, options, mode, received, bi, out, origin>>

\* for await: the runtime's stream ends
Complete ==
  /\ pc = "await"
  /\ pc' = "end"
  /\ UNCHANGED <<env, mcpConfig, options, mode, received, bi, out, origin, failure, thrown>>

\* lines 171-175, one iteration that yields
YieldText ==
  /\ pc = "text"
  /\ bi <= Len(contentOf(message))
  /\ isTextBlock(contentOf(message)[bi])
  /\ yield(textEvent(contentOf(message)[bi]))
  /\ bi' = bi + 1
  /\ UNCHANGED <<env, mcpConfig, options, mode, pc, received, failure, thrown>>

\* lines 171-175, one iteration that yields nothing
SkipText ==
  /\ pc = "text"
  /\ bi <= Len(contentOf(message))
  /\ ~isTextBlock(contentOf(message)[bi])
  /\ bi' = bi + 1
  /\ UNCHANGED <<env, mcpConfig, options, mode, pc, received, out, origin, failure, thrown>>

\* lines 170-176: the guard fails or the loop is over
EndText ==
  /\ pc = "text"
  /\ bi > Len(contentOf(message))
  /\ pc' = nextPhase("text")
  /\ bi' = 1
  /\ UNCHANGED <<env, mcpConfig, options, mode, received, out, origin, failure, thrown>>

\* lines 180-184, one iteration that yields
YieldTool ==
  /\ pc = "tool"
  /\ bi <= Len(contentOf(message))
  /\ isToolBlock(contentOf(message)[bi])
  /\ yield(toolEvent(contentOf(message)[bi]))
  /\ bi' = bi + 1
  /\ UNCHANGED <<env, mcpConfig, options, mode, pc, received, failure, thrown>>

\* lines 180-184, one iteration that yields nothing
SkipTool ==
  /\ pc = "tool"
  /\ bi <= Len(contentOf(message))
  /\ ~isToolBlock(contentOf(message)[bi])
  /\ bi' = bi + 1
  /\ UNCHANGED <<env, mcpConfig, options, mode, pc, received, out, origin, failure, thrown>>

\* lines 179-185: the guard fails or the loop is over
EndTool ==
  /\ pc = "tool"
  /\ bi > Len(contentOf(message))
  /\ pc' = nextPhase("tool")
  /\ bi' = 1
  /\ UNCHANGED <<env, mcpConfig, options, mode, received, out, origin, failure, thrown>>

\* lines 188-191
YieldUsage ==
  /\ pc = "usage"
  /\ carriesUsage(message)
  /\ yield(usageEvent(message.message.usage))
  /\ pc' = nextPhase("usage")
  /\ UNCHANGED <<env, mcpConfig, options, mode, received, bi, failure, thrown>>

SkipUsage ==
  /\ pc = "usage"
  /\ ~carriesUsage(message)
  /\ pc' = nextPhase("usage")
  /\ UNCHANGED <<env, mcpConfig, options, mode, received, bi, out, origin, failure, thrown>>

\* lines 194-196
YieldResult ==
  /\ pc = "result"
  /\ carriesResult(message)
  /\ yield(resultEvent(message))
  /\ pc' = nextPhase("result")
  /\ UNCHANGED <<env, mcpConfig, options, mode, received, bi, failure, thrown>>

SkipResult ==
  /\ pc = "result"
  /\ ~carriesResult(message)
  /\ pc' = nextPhase("result")
  /\ UNCHANGED <<env, mcpConfig, options, mode, received, bi, out, origin, failure, thrown>>

\* mutant: the generator returns without the terminal event
YieldDoneMissing ==
  /\ pc = "end"
  /\ pc' = "finished"
  /\ UNCHANGED <<env, mcpConfig, options, mode, received, bi, out, origin, failure, thrown>>

\* line 199, and the generator returns
YieldDone ==
  /\ pc = "end"
  /\ yield(doneEvent)
  /\ pc' = "finished"
  /\ UNCHANGED <<env, mcpConfig, options, mode, received, bi, failure, thrown>>

Next ==
  \/ Load
  \/ \E standalone \in BOOLEAN : CallGetOptions(standalone)
  \/ StreamAgent
  \/ \E m \in Messages \cup Scenario : Deliver(m)
  \/ \E e \in Errors : Raise(e)
  \/ Complete
  \/ YieldText
  \/ SkipText
  \/ EndText
  \/ YieldTool
  \/ SkipTool
  \/ EndTool
  \/ YieldUsage
  \/ SkipUsage
  \/ YieldResult
  \/ SkipResult
  \/ YieldDone

Spec == Init /\ [][Next]_vars

(* ----------------------------- claims ---------------------------------- *)

\* the events the consumer received while message number i was being handled
PositionsFrom(i) ==
  SelectSeq([k \in 1..Len(out) |-> k], LAMBDA k : origin[k] = i /\ out[k].type # "done")

EventsFrom(i) ==
  LET positions == PositionsFrom(i)
  IN  [j \in 1..Len(positions) |-> out[positions[j]]]

IsKind(event, kind) == event.type = kind
TextEventsFrom(i) == SelectSeq(EventsFrom(i), LAMBDA e : IsKind(e, "text"))
ToolEventsFrom(i) == SelectSeq(EventsFrom(i), LAMBDA e : IsKind(e, "tool"))
UsageEventsFrom(i) == SelectSeq(EventsFrom(i), LAMBDA e : IsKind(e, "usage"))
ResultEventsFrom(i) == SelectSeq(EventsFrom(i), LAMBDA e : IsKind(e, "result"))

\* the messages the generator has finished with
Handled ==
  {i \in 1..Len(received) : i < Len(received) \/ pc \in {"await", "end", "finished", "failed"}}

DoneCount == Cardinality({k \in 1..Len(out) : out[k].type = "done"})

\* the claims' reading of a message, written from their wording
AssistantWithContent(m) ==
  m.type = "assistant" /\ "message" \in DOMAIN m /\ "content" \in DOMAIN m.message
HasUsageRecord(m) == "message" \in DOMAIN m /\ "usage" \in DOMAIN m.message
HasResultField(m) == "result" \in DOMAIN m
BlocksOfType(m, t) == SelectSeq(m.message.content, LAMBDA b : b.type = t)
NonEmptyTextBlocks(m) == SelectSeq(m.message.content, LAMBDA b : b.type = "text" /\ b.text # "")
CounterOrZero(u, counter) == IF counter \in DOMAIN u THEN u[counter] ELSE 0

\* the events one message is to produce: texts, tools, usage, result
EventsDerived(m) ==
  (IF AssistantWithContent(m)
     THEN [k \in 1..Len(NonEmptyTextBlocks(m)) |->
             [type |-> "text", text |-> NonEmptyTextBlocks(m)[k].text]]
     ELSE <<>>)
  \o (IF AssistantWithContent(m)
        THEN [k \in 1..Len(BlocksOfType(m, "tool_use")) |->
                [type |-> "tool", name |-> BlocksOfType(m, "tool_use")[k].name]]
        ELSE <<>>)
  \o (IF HasUsageRecord(m)
        THEN << [type |-> "usage",
                 input |-> CounterOrZero(m.message.usage, "input_tokens"),
                 output |-> CounterOrZero(m.message.usage, "output_tokens")] >>
        ELSE <<>>)
  \o (IF HasResultField(m) /\ m.result # ""
        THEN << [type |-> "result", text |-> m.result] >>
        ELSE <<>>)

RECURSIVE EventsDerivedAll(_)
EventsDerivedAll(ms) ==
  IF ms = <<>> THEN <<>>
  ELSE EventsDerivedAll(SubSeq(ms, 1, Len(ms) - 1)) \o EventsDerived(ms[Len(ms)])

\* C1: when the runtime's stream completes without raising, whatever it
\* delivered, the consumer has received exactly one done event, it is the last
\* event, no error reached the consumer, and before the generator has returned
\* no done event has been emitted.
C1_DoneOnceAndLast ==
  /\ pc = "finished" =>
       /\ thrown = <<>>
       /\ Len(out) >= 1
       /\ out[Len(out)] = [type |-> "done"]
       /\ DoneCount = 1
  /\ pc # "finished" => DoneCount = 0
  /\ failure = <<>> => pc # "failed"

C1_Witness ==
  /\ pc = "finished"
  /\ Len(received) >= 2
  /\ Len(out) >= 3

\* C2: when the runtime's stream raises after delivering k messages, the
\* consumer has received exactly the events derived from those k messages (none
\* for k = 0), then the very error that was raised, and no done event.
C2_ErrorPropagates ==
  /\ thrown = failure
  /\ thrown # <<>> <=> pc = "failed"
  /\ pc = "failed" =>
       /\ out = EventsDerivedAll(received)
       /\ DoneCount = 0
       /\ (received = <<>> => out = <<>>)

C2_Witness ==
  /\ pc = "failed"
  /\ thrown = <<"AbortError">>
  /\ Len(received) >= 2
  /\ Len(out) >= 2

ExampleInput == <<MsgTwoTexts, MsgOneTool, MsgUsage, MsgResult>>

ExampleOutput ==
  << [type |-> "text", text |-> "a"],
     [type |-> "text", text |-> "b"],
     [type |-> "tool", name |-> "click"],
     [type |-> "usage", input |-> 10, output |-> 5],
     [type |-> "result", text |-> "Found 3 recipes"],
     [type |-> "done"] >>

Rank(kind) ==
  CASE kind = "text" -> 1
    [] kind = "tool" -> 2
    [] kind = "usage" -> 3
    [] kind = "result" -> 4
    [] kind = "done" -> 5

\* C3: events come out in the order of the messages they are derived from, and
\* within one message as texts (in block order), then tools (in block order),
\* then usage, then result, also when text and tool_use blocks are interleaved;
\* the documented four-message example yields exactly its six events.
\* (The order by message and kind is a total preorder, so it holds of every
\* pair of events iff it holds of every two consecutive ones.)
C3_ArrivalOrder ==
  /\ \A p \in 1..Len(out) - 1 :
       /\ origin[p] <= origin[p + 1]
       /\ origin[p] = origin[p + 1] => Rank(out[p].type) <= Rank(out[p + 1].type)
  /\ \A i \in Handled : EventsFrom(i) = EventsDerived(received[i])
  /\ (pc = "finished" /\ received = ExampleInput) => out = ExampleOutput

C3_Witness ==
  \/ pc = "finished" /\ received = ExampleInput
  \/ /\ pc = "finished"
     /\ received = <<MsgLoaded, MsgTwoTexts>>
     /\ Len(out) = 9

\* C4 as stated: an assistant message with content yields one text event per
\* text block, an empty text included, the i-th event carrying the i-th text.
C4_Original ==
  \A i \in Handled :
    AssistantWithContent(received[i]) =>
      /\ Len(TextEventsFrom(i)) = Len(BlocksOfType(received[i], "text"))
      /\ \A k \in 1..Len(TextEventsFrom(i)) :
           TextEventsFrom(i)[k].text = BlocksOfType(received[i], "text")[k].text

\* C4 as amended: an assistant message with content yields one text event per
\* text block whose text is not empty, the i-th event carrying the text of the
\* i-th such block; a text block whose text is empty yields no event.
C4_TextPerNonEmptyBlock ==
  \A i \in Handled :
    AssistantWithContent(received[i]) =>
      TextEventsFrom(i) =
        [k \in 1..Len(NonEmptyTextBlocks(received[i])) |->
           [type |-> "text", text |-> NonEmptyTextBlocks(received[i])[k].text]]

C4_Witness ==
  \E i \in Handled :
    /\ AssistantWithContent(received[i])
    /\ received[i].message.content = <<Text(""), Text("a")>>
    /\ TextEventsFrom(i) = <<[type |-> "text", text |-> "a"]>>

\* C5: a message with a usage record yields exactly one usage event; its input
\* is input_tokens and its output is output_tokens, a counter that is absent
\* being replaced by 0 and the other one left as it is.
C5_UsageDefaults ==
  \A i \in Handled :
    HasUsageRecord(received[i]) =>
      UsageEventsFrom(i) =
        << [type |-> "usage",
            input |-> CounterOrZero(received[i].message.usage, "input_tokens"),
            output |-> CounterOrZero(received[i].message.usage, "output_tokens")] >>

C5_Witness ==
  \E i \in Handled :
    /\ HasUsageRecord(received[i])
    /\ received[i].message.usage = [input_tokens |-> 10]
    /\ UsageEventsFrom(i) = <<[type |-> "usage", input |-> 10, output |-> 0]>>

ContainerFlags ==
  << "--executable-path=/usr/bin/chromium",
     "--chrome-arg=--no-sandbox",
     "--chrome-arg=--disable-setuid-sandbox",
     "--chrome-arg=--disable-dev-shm-usage",
     "--chrome-arg=--disable-gpu" >>

BaseFlags ==
  << "-y", "chrome-devtools-mcp@latest", "--headless", "--isolated",
     "--no-category-emulation", "--no-category-performance", "--no-category-network" >>

NoDuplicates(s) == \A p, q \in 1..Len(s) : p # q => s[p] # s[q]

\* C6 as stated: with CHROME_PATH = /usr/bin/chromium the arguments are the
\* base flags followed by four more flags, base length plus four in all.
C6_Original ==
  (mcpConfig # <<>> /\ env = <<"/usr/bin/chromium">>) =>
    /\ SubSeq(mcpConfig[1].args, 1, Len(BaseFlags)) = BaseFlags
    /\ Len(mcpConfig[1].args) = Len(BaseFlags) + 4
    /\ NoDuplicates(mcpConfig[1].args)

\* C6 as amended: with CHROME_PATH = /usr/bin/chromium the arguments are the
\* base flags followed by exactly five flags in fixed order, the executable
\* path and the four chrome-arg flags, without duplicates: base length plus five.
C6_ContainerArgs ==
  (mcpConfig # <<>> /\ env = <<"/usr/bin/chromium">>) =>
    /\ mcpConfig[1].args = BaseFlags \o ContainerFlags
    /\ Len(mcpConfig[1].args) = Len(BaseFlags) + 5
    /\ NoDuplicates(mcpConfig[1].args)

C6_Witness == mcpConfig # <<>> /\ env = <<"/usr/bin/chromium">> /\ pc = "ready"

\* C7: with CHROME_PATH unset or different from /usr/bin/chromium the arguments
\* are exactly the seven base flags, and the builder returns for every value.
C7_BaseArgsOnly ==
  /\ pc # "load" => mcpConfig # <<>>
  /\ (mcpConfig # <<>> /\ env # <<"/usr/bin/chromium">>) =>
       /\ mcpConfig[1].args = BaseFlags
       /\ Len(mcpConfig[1].args) = 7

C7_Witness == mcpConfig # <<>> /\ env = <<"/usr/bin/google-chrome">> /\ pc = "ready"

\* C8: the record getOptions returns has mcpServers, with the single key
\* chrome-devtools, iff standalone is true; its other fields are exactly
\* systemPrompt, model, allowedTools, maxTurns and env, each with a value that
\* does not depend on the mode: the 13 allowed tools, 50 turns, the environment.
C8_OptionsByMode ==
  options # <<>> =>
    /\ "mcpServers" \in DOMAIN options[1] <=> mode
    /\ mode => /\ DOMAIN options[1].mcpServers = {"chrome_devtools"}
               /\ options[1].mcpServers.chrome_devtools = mcpConfig[1]
    /\ DOMAIN options[1] \ {"mcpServers"} =
         {"env", "systemPrompt", "model", "allowedTools", "maxTurns"}
    /\ options[1].env = env
    /\ options[1].systemPrompt = SYSTEM_PROMPT
    /\ options[1].model = "haiku"
    /\ options[1].allowedTools = ALLOWED_TOOLS
    /\ Len(options[1].allowedTools) = 13
    /\ options[1].maxTurns = 50

C8_Witness == options # <<>> /\ ~mode /\ "mcpServers" \notin DOMAIN options[1]

\* C9 as stated: a message with a result field yields exactly one result event
\* carrying it, the empty string included; a message without one yields none.
C9_Original ==
  \A i \in Handled :
    ResultEventsFrom(i) =
      IF HasResultField(received[i])
        THEN <<[type |-> "result", text |-> received[i].result]>>
        ELSE <<>>

\* C9 as amended: a message with a result field whose content is not the empty
\* string yields exactly one result event carrying it; a message without a
\* result field, or whose result is the empty string, yields no result event.
C9_ResultWhenNonEmpty ==
  \A i \in Handled :
    ResultEventsFrom(i) =
      IF HasResultField(received[i]) /\ received[i].result # ""
        THEN <<[type |-> "result", text |-> received[i].result]>>
        ELSE <<>>

C9_Witness ==
  \E i \in Handled :
    /\ HasResultField(received[i])
    /\ received[i].result = "Found 3 recipes"
    /\ ResultEventsFrom(i) = <<[type |-> "result", text |-> "Found 3 recipes"]>>

\* C10: an assistant message with content yields one tool event per tool_use
\* block, in block order, each made of the type and the block's name only; a
\* message of another type yields no text and no tool event, whatever it carries.
C10_ToolPerBlock ==
  \A i \in Handled :
    /\ AssistantWithContent(received[i]) =>
         ToolEventsFrom(i) =
           [k \in 1..Len(BlocksOfType(received[i], "tool_use")) |->
              [type |-> "tool", name |-> BlocksOfType(received[i], "tool_use")[k].name]]
    /\ received[i].type # "assistant" =>
         TextEventsFrom(i) = <<>> /\ ToolEventsFrom(i) = <<>>

C10_Witness ==
  \E i \in Handled :
    /\ AssistantWithContent(received[i])
    /\ ToolEventsFrom(i) = <<[type |-> "tool", name |-> "click"], [type |-> "tool", name |-> "fill"]>>

====
